---- MODULE Spec2Model ----
(***************************************************************************)
(* SHEPHARD annotation interchange: the Domains and Sites readers, the     *)
(* bulk loaders and the writers of shephard/interfaces/si_domains.py and   *)
(* shephard/interfaces/si_sites.py.                                        *)
(*                                                                         *)
(* A Python str is a sequence of one-character strings, a file is the str  *)
(* of its content, a float is the integer number of its tenths (0.8 is 8,  *)
(* 1.0 is 10), a dict with str keys is a function on character sequences.  *)
(***************************************************************************)
EXTENDS Integers, Sequences, FiniteSets, TLC

VARIABLES
    proteome,   \* the Proteome the loaders mutate: Protein records in iteration order
    fresh,      \* a second Proteome of the same Proteins, target of a reload
    file,       \* the annotation file: whether it exists, and its content
    wdelim,     \* the delimiter the file was written with by a writer, or None
    last,       \* the last call: its name, its arguments and its outcome
    pc          \* the position of the session

vars == <<proteome, fresh, file, wdelim, last, pc>>

-----------------------------------------------------------------------------
(* Bounds of the model *)

\* len(sequence) of the two Proteins of the Proteome
LenP1 == 5
LenP2 == 3
\* records of a dictionary handed to a bulk loader
MaxRecs == 3
\* lines of a Domains file and of a Sites file supplied from outside
MaxDomainLines == 2
MaxSiteLines == 3

-----------------------------------------------------------------------------
(* Python str, int and float operations *)

TAB == "\t"
NL == "\n"
None == "None"

IsSpace(c) == c \in {" ", TAB, NL}

RECURSIVE LStrip(_)
LStrip(s) == IF s # <<>> /\ IsSpace(Head(s)) THEN LStrip(Tail(s)) ELSE s

RECURSIVE RStrip(_)
RStrip(s) ==
    IF s # <<>> /\ IsSpace(s[Len(s)]) THEN RStrip(SubSeq(s, 1, Len(s) - 1)) ELSE s

\* str.strip()
Strip(s) == RStrip(LStrip(s))

\* str.split(d) for a one-character d
RECURSIVE Split(_, _)
Split(s, d) ==
    LET at == {i \in 1..Len(s) : s[i] = d}
    IN  IF at = {} THEN <<s>>
        ELSE LET i == CHOOSE j \in at : \A k \in at : j <= k
             IN  <<SubSeq(s, 1, i - 1)>> \o Split(SubSeq(s, i + 1, Len(s)), d)

\* fh.readlines(): the lines of the content, each with its line break
RECURSIVE ReadLines(_)
ReadLines(s) ==
    LET at == {i \in 1..Len(s) : s[i] = NL}
    IN  IF s = <<>> THEN <<>>
        ELSE IF at = {} THEN <<s>>
        ELSE LET i == CHOOSE j \in at : \A k \in at : j <= k
             IN  <<SubSeq(s, 1, i)>> \o ReadLines(SubSeq(s, i + 1, Len(s)))

Count(s, c) == Cardinality({i \in 1..Len(s) : s[i] = c})

DigitChars == <<"0", "1", "2", "3", "4", "5", "6", "7", "8", "9">>
IsDigit(c) == \E i \in 1..Len(DigitChars) : DigitChars[i] = c
DigitVal(c) == (CHOOSE i \in 1..Len(DigitChars) : DigitChars[i] = c) - 1
AllDigits(s) == \A i \in 1..Len(s) : IsDigit(s[i])

RECURSIVE DigitsVal(_)
DigitsVal(s) ==
    IF s = <<>> THEN 0
    ELSE DigitsVal(SubSeq(s, 1, Len(s) - 1)) * 10 + DigitVal(s[Len(s)])

\* the sign of a numeric literal and what follows it
Signed(t) ==
    IF t # <<>> /\ Head(t) \in {"-", "+"}
    THEN [neg |-> Head(t) = "-", body |-> Tail(t)]
    ELSE [neg |-> FALSE, body |-> t]

\* int(s): ok is FALSE where int raises ValueError
ParseInt(s) ==
    LET g == Signed(Strip(s))
    IN  IF g.body # <<>> /\ AllDigits(g.body)
        THEN [ok |-> TRUE,
              val |-> IF g.neg THEN 0 - DigitsVal(g.body) ELSE DigitsVal(g.body)]
        ELSE [ok |-> FALSE, val |-> 0]

RECURSIVE NatToStr(_)
NatToStr(n) ==
    IF n < 10 THEN <<DigitChars[n + 1]>>
    ELSE NatToStr(n \div 10) \o <<DigitChars[(n % 10) + 1]>>

\* str(n) and '%i' % n of an int
IntToStr(n) == IF n < 0 THEN <<"-">> \o NatToStr(0 - n) ELSE NatToStr(n)

\* float(s) in tenths, for literals digits[.digit]: ok is FALSE where float raises
ParseFloat(s) ==
    LET g == Signed(Strip(s))
        parts == Split(g.body, ".")
        whole == parts[1]
        frac == IF Len(parts) = 2 THEN parts[2] ELSE <<>>
        mag == DigitsVal(whole) * 10 + (IF frac = <<>> THEN 0 ELSE DigitVal(frac[1]))
    IN  IF /\ Len(parts) <= 2
           /\ AllDigits(whole) /\ AllDigits(frac)
           /\ Len(whole) + Len(frac) > 0
           /\ \A i \in 2..Len(frac) : frac[i] = "0"
        THEN [ok |-> TRUE, val |-> IF g.neg THEN 0 - mag ELSE mag]
        ELSE [ok |-> FALSE, val |-> 0]

\* str(x) of a float given in tenths
FloatToStr(v) ==
    LET mag == IF v < 0 THEN 0 - v ELSE v
    IN  (IF v < 0 THEN <<"-">> ELSE <<>>)
        \o NatToStr(mag \div 10) \o <<".">> \o NatToStr(mag % 10)

-----------------------------------------------------------------------------
(* The data model: Proteome, Protein, Domain, Site, attribute parser.      *)
(* Their code is not among the interface files; it follows the data model  *)
(* and the attribute parser of the specification.                          *)

\* an attribute mapping with no key
EmptyAttrs == <<>>

RECURSIVE KeyValueFold(_)
KeyValueFold(tokens) ==
    IF tokens = <<>> THEN EmptyAttrs
    ELSE LET kv == Split(tokens[Len(tokens)], ":")
         IN  (Strip(kv[1]) :> Strip(kv[2]))
                 @@ KeyValueFold(SubSeq(tokens, 1, Len(tokens) - 1))

\* interface_tools.parse_key_value_pairs: every token holds exactly one ':',
\* key and value are stripped, a later key overwrites an earlier one
parse_key_value_pairs(tokens) ==
    IF \E i \in 1..Len(tokens) : Count(tokens[i], ":") # 1
    THEN [ok |-> FALSE, attributes |-> EmptyAttrs]
    ELSE [ok |-> TRUE, attributes |-> KeyValueFold(tokens)]

Protein(uid, n) == [unique_ID |-> uid, len |-> n, domains |-> <<>>, sites |-> <<>>]

P1 == <<"P", "1">>
P2 == <<"P", "2">>
\* a unique_ID of no Protein of the Proteome
PX == <<"P", "X">>

\* the Proteome as the sequence-loading collaborator hands it over
BareProteome == <<Protein(P1, LenP1), Protein(P2, LenP2)>>

ProteinIDs(prot) == {prot[i].unique_ID : i \in 1..Len(prot)}

NameTaken(p, nm) == \E i \in 1..Len(p.domains) : p.domains[i].name = nm

\* the name of a new Domain: type, start and end, made unique under autoname
DomainName(p, start, end, domain_type, autoname) ==
    LET base == <<domain_type, start, end>>
        free == {k \in 0..Len(p.domains) : ~NameTaken(p, [base |-> base, n |-> k])}
    IN  [base |-> base,
         n |-> IF autoname THEN CHOOSE k \in free : \A j \in free : k <= j ELSE 0]

\* Protein.add_domain: ok is FALSE where it raises (interval outside the
\* sequence, or the name taken under safe); a taken name without safe is overwritten
add_domain(p, start, end, domain_type, ad, safe, autoname) ==
    LET nm == DomainName(p, start, end, domain_type, autoname)
        d == [name |-> nm, start |-> start, end |-> end,
              domain_type |-> domain_type, attributes |-> ad]
    IN  IF ~(1 <= start /\ start <= end /\ end <= p.len)
        THEN [ok |-> FALSE, protein |-> p]
        ELSE IF NameTaken(p, nm)
        THEN IF safe
             THEN [ok |-> FALSE, protein |-> p]
             ELSE [ok |-> TRUE,
                   protein |-> [p EXCEPT !.domains =
                       [i \in 1..Len(p.domains) |->
                           IF p.domains[i].name = nm THEN d ELSE p.domains[i]]]]
        ELSE [ok |-> TRUE, protein |-> [p EXCEPT !.domains = Append(@, d)]]

\* Protein.add_site: ok is FALSE where it raises ProteinException (position
\* outside the sequence)
add_site(p, position, site_type, symbol, value, ad) ==
    IF ~(1 <= position /\ position <= p.len)
    THEN [ok |-> FALSE, protein |-> p]
    ELSE [ok |-> TRUE,
          protein |-> [p EXCEPT !.sites = Append(@,
              [position |-> position, site_type |-> site_type, symbol |-> symbol,
               value |-> value, attributes |-> ad])]]

\* the same Proteome after earlier loads gave P1 a Domain and a Site
AnnotatedProteome ==
    <<add_site(add_domain(Protein(P1, LenP1), 1, 2, <<"A">>, EmptyAttrs, TRUE,
                          FALSE).protein,
               2, <<"M">>, <<"S">>, 8, EmptyAttrs).protein,
      Protein(P2, LenP2)>>

-----------------------------------------------------------------------------
(* si_domains.py *)

\* the outcome of a reader that raised before it opened the file
\* a file: NoFile where no file of the name exists
NoFile == [exists |-> FALSE, content |-> <<>>]
FileOf(content) == [exists |-> TRUE, content |-> content]

ReaderRaisedEarly(e) ==
    [err |-> e, errline |-> 0, data |-> None, opened |-> FALSE,
     processed |-> 0, warnings |-> 0]

\* ID2domain[unique_ID].append(record), or the first record of a new key
Accumulate(ID2x, unique_ID, record) ==
    IF unique_ID \in DOMAIN ID2x
    THEN [ID2x EXCEPT ![unique_ID] = Append(@, record)]
    ELSE (unique_ID :> <<record>>) @@ ID2x

\* what try block of the Domains reader raises on: sline[1], sline[2] as int, sline[3]
DomainRequiredOk(sline) ==
    /\ Len(sline) >= 4
    /\ ParseInt(sline[2]).ok
    /\ ParseInt(sline[3]).ok

\* a line loop that skips a line with a bad required field, as the Sites
\* reader does under skip_bad
RECURSIVE DomainsInterfaceLinesSkipping(_, _, _, _)
DomainsInterfaceLinesSkipping(content, linecount, delimiter, ID2domain) ==
    IF content = <<>>
    THEN [err |-> None, errline |-> 0, data |-> ID2domain, opened |-> TRUE,
          processed |-> linecount, warnings |-> 0]
    ELSE LET line == Head(content)
             n == linecount + 1
             sline == Split(line, delimiter)
             raised == [err |-> "InterfaceException", errline |-> n, data |-> None,
                        opened |-> TRUE, processed |-> n, warnings |-> 0]
         IN  IF ~DomainRequiredOk(sline)
             THEN DomainsInterfaceLinesSkipping(Tail(content), n, delimiter, ID2domain)
             ELSE LET kv == IF Len(sline) > 4
                            THEN parse_key_value_pairs(SubSeq(sline, 5, Len(sline)))
                            ELSE [ok |-> TRUE, attributes |-> EmptyAttrs]
                      record == <<ParseInt(sline[2]).val, ParseInt(sline[3]).val,
                                  Strip(sline[4]), kv.attributes>>
                  IN  IF ~kv.ok THEN raised
                      ELSE DomainsInterfaceLinesSkipping(Tail(content), n, delimiter,
                               Accumulate(ID2domain, Strip(sline[1]), record))

\* the line loop of _DomainsInterface.__init__; linecount lines are behind it
RECURSIVE DomainsInterfaceLines(_, _, _, _)
DomainsInterfaceLines(content, linecount, delimiter, ID2domain) ==
    IF content = <<>>
    THEN [err |-> None, errline |-> 0, data |-> ID2domain, opened |-> TRUE,
          processed |-> linecount, warnings |-> 0]
    ELSE LET line == Head(content)
             n == linecount + 1
             sline == Split(line, delimiter)
             raised == [err |-> "InterfaceException", errline |-> n, data |-> None,
                        opened |-> TRUE, processed |-> n, warnings |-> 0]
         IN  IF ~DomainRequiredOk(sline) THEN raised
             ELSE LET kv == IF Len(sline) > 4
                            THEN parse_key_value_pairs(SubSeq(sline, 5, Len(sline)))
                            ELSE [ok |-> TRUE, attributes |-> EmptyAttrs]
                      record == <<ParseInt(sline[2]).val, ParseInt(sline[3]).val,
                                  Strip(sline[4]), kv.attributes>>
                  IN  IF ~kv.ok THEN raised
                      ELSE DomainsInterfaceLines(Tail(content), n, delimiter,
                               Accumulate(ID2domain, Strip(sline[1]), record))

\* a reader without the check of the delimiter
DomainsInterfaceUnchecked(f, delimiter) ==
    IF ~f.exists
    THEN [ReaderRaisedEarly("FileNotFoundError") EXCEPT !.opened = TRUE]
    ELSE DomainsInterfaceLines(ReadLines(f.content), 0, delimiter, <<>>)

\* _DomainsInterface(filename, delimiter): f is the file of that name
DomainsInterface(f, delimiter) ==
    IF delimiter = ":" THEN ReaderRaisedEarly("InterfaceException")
    ELSE IF ~f.exists
    THEN [ReaderRaisedEarly("FileNotFoundError") EXCEPT !.opened = TRUE]
    ELSE DomainsInterfaceLines(ReadLines(f.content), 0, delimiter, <<>>)

\* the conversion specifiers of 'Warning - skippiing domain at %i-$i on %s'
SkipWarningSpecifiers == <<"%i", "%s">>

\* format % args: ok is FALSE where % raises TypeError (not all arguments converted)
SkipWarning(args) == [ok |-> Len(args) = Len(SkipWarningSpecifiers)]

\* the two loops of add_domains_from_dictionary, at Protein i and its record j
RECURSIVE AddDomainsLoop(_, _, _, _, _, _, _, _)
AddDomainsLoop(prot, dict, i, j, autoname, safe, skip_bad, verbose) ==
    IF i > Len(prot) THEN [proteome |-> prot, err |-> None, warnings |-> 0]
    ELSE IF prot[i].unique_ID \notin DOMAIN dict
    THEN AddDomainsLoop(prot, dict, i + 1, 1, autoname, safe, skip_bad, verbose)
    ELSE IF j > Len(dict[prot[i].unique_ID])
    THEN AddDomainsLoop(prot, dict, i + 1, 1, autoname, safe, skip_bad, verbose)
    ELSE LET domain == dict[prot[i].unique_ID][j]
             r == add_domain(prot[i], domain[1], domain[2], domain[3], domain[4],
                             safe, autoname)
         IN  IF r.ok
             THEN AddDomainsLoop([prot EXCEPT ![i] = r.protein], dict, i, j + 1,
                                 autoname, safe, skip_bad, verbose)
             ELSE IF ~skip_bad
             THEN [proteome |-> prot, err |-> "InterfaceException", warnings |-> 0]
             ELSE IF verbose /\ ~SkipWarning(<<domain[1], domain[2], prot[i]>>).ok
             THEN [proteome |-> prot, err |-> "TypeError", warnings |-> 0]
             ELSE AddDomainsLoop(prot, dict, i, j + 1, autoname, safe, skip_bad, verbose)

\* a loader that undoes its additions when a record raises
add_domains_from_dictionary_rolled_back(prot, dict, autoname, safe, skip_bad, verbose) ==
    LET r == AddDomainsLoop(prot, dict, 1, 1, autoname, safe, skip_bad, verbose)
    IN  IF r.err = None THEN r ELSE [r EXCEPT !.proteome = prot]

\* a loader that looks every key of the dictionary up in the Proteome
add_domains_from_dictionary_by_key(prot, dict, autoname, safe, skip_bad, verbose) ==
    IF DOMAIN dict \subseteq ProteinIDs(prot)
    THEN AddDomainsLoop(prot, dict, 1, 1, autoname, safe, skip_bad, verbose)
    ELSE [proteome |-> prot, err |-> "KeyError", warnings |-> 0]

add_domains_from_dictionary(prot, dict, autoname, safe, skip_bad, verbose) ==
    AddDomainsLoop(prot, dict, 1, 1, autoname, safe, skip_bad, verbose)

\* add_domains_from_file: the reader, then the loader on its mapping
add_domains_from_file(prot, f, autoname, delimiter, safe, skip_bad, verbose) ==
    LET rd == DomainsInterface(f, delimiter)
        ld == add_domains_from_dictionary(prot, rd.data, autoname, safe, skip_bad, verbose)
    IN  IF rd.err # None
        THEN [proteome |-> prot, err |-> rd.err, warnings |-> 0, rd |-> rd]
        ELSE [proteome |-> ld.proteome, err |-> ld.err, warnings |-> ld.warnings,
              rd |-> rd]

DomainLine(p, d, delimiter) ==
    p.unique_ID \o <<delimiter>> \o IntToStr(d.start) \o <<delimiter>>
        \o IntToStr(d.end) \o <<delimiter>> \o d.domain_type \o <<NL>>

RECURSIVE DomainLines(_, _)
DomainLines(p, delimiter) ==
    IF p.domains = <<>> THEN <<>>
    ELSE DomainLine(p, Head(p.domains), delimiter)
             \o DomainLines([p EXCEPT !.domains = Tail(@)], delimiter)

\* write_domains: the content of the file it writes
RECURSIVE write_domains(_, _)
write_domains(prot, delimiter) ==
    IF prot = <<>> THEN <<>>
    ELSE DomainLines(Head(prot), delimiter) \o write_domains(Tail(prot), delimiter)

-----------------------------------------------------------------------------
(* si_sites.py *)

\* what the try block of the Sites reader raises on: sline[1] as int,
\* sline[2], sline[3], sline[4] as float
SiteRequiredOk(sline) ==
    /\ Len(sline) >= 5
    /\ ParseInt(sline[2]).ok
    /\ ParseFloat(sline[5]).ok

\* the line loop of _SitesInterface.__init__; linecount lines are behind it
\* and warned counts the warnings printed for skipped lines
RECURSIVE SitesInterfaceLines(_, _, _, _, _, _)
SitesInterfaceLines(content, linecount, delimiter, skip_bad, ID2site, warned) ==
    IF content = <<>>
    THEN [err |-> None, errline |-> 0, data |-> ID2site, opened |-> TRUE,
          processed |-> linecount, warnings |-> warned]
    ELSE LET line == Head(content)
             n == linecount + 1
             sline == Split(Strip(line), delimiter)
             raised == [err |-> "InterfaceException", errline |-> n, data |-> None,
                        opened |-> TRUE, processed |-> n, warnings |-> warned]
         IN  IF ~SiteRequiredOk(sline)
             THEN IF skip_bad
                  THEN SitesInterfaceLines(Tail(content), n, delimiter, skip_bad,
                                           ID2site, warned + 1)
                  ELSE raised
             ELSE LET kv == IF Len(sline) > 5
                            THEN parse_key_value_pairs(SubSeq(sline, 6, Len(sline)))
                            ELSE [ok |-> TRUE, attributes |-> EmptyAttrs]
                      record == [position |-> ParseInt(sline[2]).val,
                                 site_type |-> Strip(sline[3]),
                                 symbol |-> Strip(sline[4]),
                                 value |-> ParseFloat(sline[5]).val,
                                 attributes |-> kv.attributes]
                  IN  IF ~kv.ok THEN raised
                      ELSE SitesInterfaceLines(Tail(content), n, delimiter, skip_bad,
                               Accumulate(ID2site, Strip(sline[1]), record), warned)

\* _SitesInterface(filename, delimiter, skip_bad): f is the file of that name
SitesInterface(f, delimiter, skip_bad) ==
    IF delimiter = ":" THEN ReaderRaisedEarly("InterfaceException")
    ELSE IF ~f.exists
    THEN [ReaderRaisedEarly("FileNotFoundError") EXCEPT !.opened = TRUE]
    ELSE SitesInterfaceLines(ReadLines(f.content), 0, delimiter, skip_bad, <<>>, 0)

\* the keys add_sites_from_dictionary reads inside its first try block
SiteRequiredKeys == {"position", "site_type", "symbol", "value"}

\* the two loops of add_sites_from_dictionary, at Protein i and its entry j;
\* warned counts the warnings printed
RECURSIVE AddSitesLoop(_, _, _, _, _, _, _)
AddSitesLoop(prot, dict, i, j, safe, verbose, warned) ==
    IF i > Len(prot) THEN [proteome |-> prot, err |-> None, warnings |-> warned]
    ELSE IF prot[i].unique_ID \notin DOMAIN dict
    THEN AddSitesLoop(prot, dict, i + 1, 1, safe, verbose, warned)
    ELSE IF j > Len(dict[prot[i].unique_ID])
    THEN AddSitesLoop(prot, dict, i + 1, 1, safe, verbose, warned)
    ELSE LET site == dict[prot[i].unique_ID][j]
             ad == IF "attributes" \in DOMAIN site THEN site.attributes ELSE EmptyAttrs
             r == add_site(prot[i], site.position, site.site_type, site.symbol,
                           site.value, ad)
         IN  IF ~(SiteRequiredKeys \subseteq DOMAIN site)
             THEN [proteome |-> prot, err |-> "InterfaceException", warnings |-> warned]
             ELSE IF r.ok
             THEN AddSitesLoop([prot EXCEPT ![i] = r.protein], dict, i, j + 1,
                               safe, verbose, warned)
             ELSE IF safe
             THEN [proteome |-> prot, err |-> "ProteinException", warnings |-> warned]
             ELSE AddSitesLoop(prot, dict, i, j + 1, safe, verbose,
                               IF verbose THEN warned + 1 ELSE warned)

add_sites_from_dictionary(prot, dict, safe, verbose) ==
    AddSitesLoop(prot, dict, 1, 1, safe, verbose, 0)

\* add_sites_from_file handing safe and verbose over in the wrong order
add_sites_from_file_swapped(prot, f, delimiter, safe, skip_bad, verbose) ==
    LET rd == SitesInterface(f, delimiter, skip_bad)
        ld == add_sites_from_dictionary(prot, rd.data, verbose, safe)
    IN  IF rd.err # None
        THEN [proteome |-> prot, err |-> rd.err, warnings |-> rd.warnings, rd |-> rd]
        ELSE [proteome |-> ld.proteome, err |-> ld.err,
              warnings |-> rd.warnings + ld.warnings, rd |-> rd]

\* add_sites_from_file: the reader, then the loader on its mapping
add_sites_from_file(prot, f, delimiter, safe, skip_bad, verbose) ==
    LET rd == SitesInterface(f, delimiter, skip_bad)
        ld == add_sites_from_dictionary(prot, rd.data, safe, verbose)
    IN  IF rd.err # None
        THEN [proteome |-> prot, err |-> rd.err, warnings |-> rd.warnings, rd |-> rd]
        ELSE [proteome |-> ld.proteome, err |-> ld.err,
              warnings |-> rd.warnings + ld.warnings, rd |-> rd]

\* the line write_sites builds for a Site without attributes
SiteLine(p, s, delimiter) ==
    p.unique_ID \o <<delimiter>> \o IntToStr(s.position) \o <<delimiter>>
        \o s.site_type \o <<delimiter>> \o s.symbol \o <<delimiter>>
        \o FloatToStr(s.value) \o <<delimiter>> \o <<NL>>

\* the lines of one Protein's Sites, up to the first Site with attributes,
\* where s.attributes(k) calls the attribute mapping and raises TypeError
RECURSIVE SiteLines(_, _)
SiteLines(p, delimiter) ==
    IF p.sites = <<>> THEN [content |-> <<>>, err |-> None]
    ELSE IF DOMAIN Head(p.sites).attributes # {}
    THEN [content |-> <<>>, err |-> "TypeError"]
    ELSE LET rest == SiteLines([p EXCEPT !.sites = Tail(@)], delimiter)
         IN  [content |-> SiteLine(p, Head(p.sites), delimiter) \o rest.content,
              err |-> rest.err]

\* write_sites: the content of the file it leaves, and the error it raises
RECURSIVE write_sites(_, _)
write_sites(prot, delimiter) ==
    IF prot = <<>> THEN [content |-> <<>>, err |-> None]
    ELSE LET here == SiteLines(Head(prot), delimiter)
             rest == write_sites(Tail(prot), delimiter)
         IN  IF here.err # None THEN here
             ELSE [content |-> here.content \o rest.content, err |-> rest.err]

-----------------------------------------------------------------------------
(* The inputs of a session *)

Delimiters == {TAB, ",", ":"}

SeqsUpTo(S, n) == UNION {[1..k -> S] : k \in 0..n}

\* the dictionary that maps each key to its records, in encounter order
RECURSIVE ToDict(_)
ToDict(pairs) ==
    IF pairs = <<>> THEN <<>>
    ELSE LET p == pairs[Len(pairs)]
         IN  Accumulate(ToDict(SubSeq(pairs, 1, Len(pairs) - 1)), p[1], p[2])

Keys == {P1, P2, PX}

KV == (<<"k">> :> <<"v">>)

\* [start, end, domain_type, attributes]: two that fit both Proteins, one with
\* attributes, one that ends behind every sequence, one whose type holds a ','
DomainRecords ==
    { <<1, 2, <<"A">>, EmptyAttrs>>,
      <<2, 3, <<"B">>, KV>>,
      <<1, LenP1 + LenP2, <<"A">>, EmptyAttrs>>,
      <<1, 1, <<"A", ",", "B">>, EmptyAttrs>> }

DomainDictionaries ==
    {ToDict(pairs) : pairs \in SeqsUpTo(Keys \X DomainRecords, MaxRecs)}

\* entries of a Sites dictionary: two that fit both Proteins, one with attributes,
\* one behind every sequence, one without 'value' and 'attributes'
SiteRecords ==
    { [position |-> 2, site_type |-> <<"M">>, symbol |-> <<"S">>, value |-> 8,
       attributes |-> EmptyAttrs],
      [position |-> 3, site_type |-> <<"M">>, symbol |-> <<"T">>, value |-> 10,
       attributes |-> KV],
      [position |-> LenP1 + LenP2, site_type |-> <<"M">>, symbol |-> <<"S">>,
       value |-> 8, attributes |-> EmptyAttrs],
      [position |-> 2, site_type |-> <<"M">>, symbol |-> <<"S">>] }

SiteDictionaries ==
    {ToDict(pairs) : pairs \in SeqsUpTo(Keys \X SiteRecords, MaxRecs)}

RECURSIVE Join(_, _)
Join(fields, d) ==
    IF Len(fields) = 1 THEN fields[1]
    ELSE fields[1] \o <<d>> \o Join(Tail(fields), d)

Line(fields, d) == Join(fields, d) \o <<NL>>

RECURSIVE Concat(_)
Concat(lines) == IF lines = <<>> THEN <<>> ELSE Head(lines) \o Concat(Tail(lines))

Far == IntToStr(LenP1 + LenP2)

\* lines of a Domains file from outside: well-formed (plain, with an attribute,
\* for an absent Protein, behind the sequence, with ',' and with ':' between
\* the fields) and malformed (fields missing, start no integer, a token without ':')
DomainFileLines ==
    { Line(<<P1, <<"1">>, <<"2">>, <<"A">> >>, TAB),
      Line(<<P2, <<"2">>, <<"3">>, <<"B">>, <<"k", ":", "v">> >>, TAB),
      Line(<<PX, <<"1">>, <<"2">>, <<"A">> >>, TAB),
      Line(<<P1, <<"1">>, Far, <<"A">> >>, TAB),
      Line(<<P2, <<"1">>, <<"2">>, <<"C">> >>, ","),
      Line(<<P1, <<"1">>, <<"2">>, <<"A">> >>, ":"),
      Line(<<P1, <<"1">> >>, TAB),
      Line(<<P1, <<"x">>, <<"2">>, <<"A">> >>, TAB),
      Line(<<P1, <<"1">>, <<"2">>, <<"A">>, <<"b", "a", "d">> >>, TAB) }

\* lines of a Sites file from outside: well-formed (plain, with an attribute,
\* behind the sequence, with ':' between the fields) and malformed (position no
\* integer, value missing, a token with two ':')
SiteFileLines ==
    { Line(<<P1, <<"2">>, <<"M">>, <<"S">>, <<"0", ".", "8">> >>, TAB),
      Line(<<P2, <<"3">>, <<"M">>, <<"T">>, <<"1", ".", "0">>, <<"k", ":", "v">> >>, TAB),
      Line(<<P2, Far, <<"M">>, <<"S">>, <<"0", ".", "8">> >>, TAB),
      Line(<<P1, <<"2">>, <<"M">>, <<"S">>, <<"0", ".", "8">> >>, ":"),
      Line(<<P1, <<"x">>, <<"M">>, <<"S">>, <<"0", ".", "8">> >>, TAB),
      Line(<<P1, <<"2">>, <<"M">>, <<"S">> >>, TAB),
      Line(<<P1, <<"2">>, <<"M">>, <<"S">>, <<"0", ".", "8">>,
             <<"a", ":", "b", ":", "c">> >>, TAB) }

-----------------------------------------------------------------------------
(* The session: a bulk load from a dictionary, then a writer and a reload   *)
(* into the fresh Proteome; or a file from outside, then a load from it.    *)

\* the record of a call: arguments it does not take are None, pre and post are
\* the Proteome it is given before and after it
Call(op, delimiter, autoname, safe, skip_bad, verbose, dict, pre, res) ==
    [op |-> op, delimiter |-> delimiter, autoname |-> autoname, safe |-> safe,
     skip_bad |-> skip_bad, verbose |-> verbose, dict |-> dict, pre |-> pre,
     post |-> res.proteome, err |-> res.err, warnings |-> res.warnings,
     rd |-> res.rd]

NoCall ==
    Call("none", None, None, None, None, None, None, None,
         [proteome |-> None, err |-> None, warnings |-> 0, rd |-> None])

Init ==
    /\ proteome \in {BareProteome, AnnotatedProteome}
    /\ fresh = BareProteome
    /\ file = NoFile
    /\ wdelim = None
    /\ last = NoCall
    /\ pc = "start"

AddDomainsFromDictionary ==
    /\ pc = "start"
    /\ \E dict \in DomainDictionaries, autoname, safe, skip_bad, verbose \in BOOLEAN :
          LET r == add_domains_from_dictionary(proteome, dict, autoname, safe,
                                               skip_bad, verbose)
          IN  /\ proteome' = r.proteome
              /\ last' = Call("add_domains_from_dictionary", None, autoname, safe,
                              skip_bad, verbose, dict, proteome,
                              [proteome |-> r.proteome, err |-> r.err,
                               warnings |-> r.warnings, rd |-> None])
    /\ pc' = "domains_loaded"
    /\ UNCHANGED <<fresh, file, wdelim>>

WriteDomains ==
    /\ pc = "domains_loaded"
    /\ \E delimiter \in Delimiters :
          /\ file' = FileOf(write_domains(proteome, delimiter))
          /\ wdelim' = delimiter
          /\ last' = Call("write_domains", delimiter, None, None, None, None, None,
                          proteome,
                          [proteome |-> proteome, err |-> None, warnings |-> 0,
                           rd |-> None])
    /\ pc' = "domains_written"
    /\ UNCHANGED <<proteome, fresh>>

\* add_domains_from_file on the fresh Proteome, from the file write_domains left
ReloadDomains ==
    /\ pc = "domains_written"
    /\ \E delimiter \in Delimiters, autoname, safe, skip_bad, verbose \in BOOLEAN :
          LET r == add_domains_from_file(fresh, file, autoname, delimiter, safe,
                                         skip_bad, verbose)
          IN  /\ fresh' = r.proteome
              /\ last' = Call("add_domains_from_file", delimiter, autoname, safe,
                              skip_bad, verbose, None, fresh, r)
    /\ pc' = "done"
    /\ UNCHANGED <<proteome, file, wdelim>>

\* a Domains file arrives from a third party
PutDomainsFile ==
    /\ pc = "start"
    /\ \E lines \in SeqsUpTo(DomainFileLines, MaxDomainLines) : file' = FileOf(Concat(lines))
    /\ pc' = "domains_file"
    /\ UNCHANGED <<proteome, fresh, wdelim, last>>

\* add_domains_from_file on the Proteome, from the outside file or from no file
AddDomainsFromFile ==
    /\ pc \in {"start", "domains_file"}
    /\ \E delimiter \in Delimiters, autoname, safe, skip_bad, verbose \in BOOLEAN :
          LET r == add_domains_from_file(proteome, file, autoname, delimiter, safe,
                                         skip_bad, verbose)
          IN  /\ proteome' = r.proteome
              /\ last' = Call("add_domains_from_file", delimiter, autoname, safe,
                              skip_bad, verbose, None, proteome, r)
    /\ pc' = "done"
    /\ UNCHANGED <<fresh, file, wdelim>>

AddSitesFromDictionary ==
    /\ pc = "start"
    /\ \E dict \in SiteDictionaries, safe, verbose \in BOOLEAN :
          LET r == add_sites_from_dictionary(proteome, dict, safe, verbose)
          IN  /\ proteome' = r.proteome
              /\ last' = Call("add_sites_from_dictionary", None, None, safe, None,
                              verbose, dict, proteome,
                              [proteome |-> r.proteome, err |-> r.err,
                               warnings |-> r.warnings, rd |-> None])
    /\ pc' = "sites_loaded"
    /\ UNCHANGED <<fresh, file, wdelim>>

\* write_sites creates the file before its loop, so a raise leaves what was written
WriteSites ==
    /\ pc = "sites_loaded"
    /\ \E delimiter \in Delimiters :
          LET w == write_sites(proteome, delimiter)
          IN  /\ file' = FileOf(w.content)
              /\ wdelim' = delimiter
              /\ last' = Call("write_sites", delimiter, None, None, None, None, None,
                              proteome,
                              [proteome |-> proteome, err |-> w.err, warnings |-> 0,
                               rd |-> None])
    /\ pc' = "sites_written"
    /\ UNCHANGED <<proteome, fresh>>

\* add_sites_from_file on the fresh Proteome, from the file write_sites left
ReloadSites ==
    /\ pc = "sites_written"
    /\ \E delimiter \in Delimiters, safe, skip_bad, verbose \in BOOLEAN :
          LET r == add_sites_from_file(fresh, file, delimiter, safe, skip_bad, verbose)
          IN  /\ fresh' = r.proteome
              /\ last' = Call("add_sites_from_file", delimiter, None, safe, skip_bad,
                              verbose, None, fresh, r)
    /\ pc' = "done"
    /\ UNCHANGED <<proteome, file, wdelim>>

\* a Sites file arrives from a third party
PutSitesFile ==
    /\ pc = "start"
    /\ \E lines \in SeqsUpTo(SiteFileLines, MaxSiteLines) : file' = FileOf(Concat(lines))
    /\ pc' = "sites_file"
    /\ UNCHANGED <<proteome, fresh, wdelim, last>>

\* add_sites_from_file on the Proteome, from the outside file or from no file
AddSitesFromFile ==
    /\ pc \in {"start", "sites_file"}
    /\ \E delimiter \in Delimiters, safe, skip_bad, verbose \in BOOLEAN :
          LET r == add_sites_from_file(proteome, file, delimiter, safe, skip_bad,
                                       verbose)
          IN  /\ proteome' = r.proteome
              /\ last' = Call("add_sites_from_file", delimiter, None, safe, skip_bad,
                              verbose, None, proteome, r)
    /\ pc' = "done"
    /\ UNCHANGED <<fresh, file, wdelim>>

Next ==
    \/ AddDomainsFromDictionary
    \/ WriteDomains
    \/ ReloadDomains
    \/ PutDomainsFile
    \/ AddDomainsFromFile
    \/ AddSitesFromDictionary
    \/ WriteSites
    \/ ReloadSites
    \/ PutSitesFile
    \/ AddSitesFromFile

Spec == Init /\ [][Next]_vars

-----------------------------------------------------------------------------
(* Claims about the bulk loaders *)

ProteinOf(prot, uid) == prot[CHOOSE i \in 1..Len(prot) : prot[i].unique_ID = uid]

PresentKeys(prot, dict) == DOMAIN dict \cap ProteinIDs(prot)

InRange(p, start, end) == 1 <= start /\ start <= end /\ end <= p.len

\* a record of the dictionary, under the key of a Protein, whose interval is
\* outside that Protein's sequence
HasOutOfRangeDomain(prot, dict) ==
    \E uid \in PresentKeys(prot, dict) : \E j \in 1..Len(dict[uid]) :
        ~InRange(ProteinOf(prot, uid), dict[uid][j][1], dict[uid][j][2])

\* every record of the dictionary that fits its Protein is among its Domains
InRangeDomainsLoaded(prot, dict) ==
    \A uid \in PresentKeys(prot, dict) : \A j \in 1..Len(dict[uid]) :
        LET r == dict[uid][j]
            p == ProteinOf(prot, uid)
        IN  InRange(p, r[1], r[2]) =>
                \E k \in 1..Len(p.domains) :
                    /\ p.domains[k].start = r[1]
                    /\ p.domains[k].end = r[2]
                    /\ p.domains[k].domain_type = r[3]

\* C1: after add_domains_from_dictionary on a dictionary with a record whose
\* interval is out of range: under skip_bad no error reaches the caller, the
\* records that fit are loaded and, under verbose, a warning was emitted;
\* without skip_bad the failure reaches the caller.
C1_SkipBadDecidesFailure ==
    (/\ last.op = "add_domains_from_dictionary"
     /\ HasOutOfRangeDomain(last.pre, last.dict))
    => IF last.skip_bad
       THEN /\ last.err = None
            /\ InRangeDomainsLoaded(last.post, last.dict)
            /\ last.verbose => last.warnings > 0
       ELSE last.err # None

\* a record of the mapping, under the key of a Protein, whose position is
\* outside that Protein's sequence
HasOutOfRangeSite(prot, dict) ==
    \E uid \in PresentKeys(prot, dict) : \E j \in 1..Len(dict[uid]) :
        LET pos == dict[uid][j].position
        IN  ~(1 <= pos /\ pos <= ProteinOf(prot, uid).len)

SiteInRange(p, site) == 1 <= site.position /\ site.position <= p.len

\* the records of the mapping under uid that fit the Protein p, in their order
SitesThatFit(p, dict) ==
    LET Fits(site) == SiteInRange(p, site)
    IN  IF p.unique_ID \in DOMAIN dict THEN SelectSeq(dict[p.unique_ID], Fits) ELSE <<>>

\* the last call was a Sites load that handed a mapping to the loader
HasSitesMapping ==
    \/ last.op = "add_sites_from_dictionary"
    \/ last.op = "add_sites_from_file" /\ last.rd.err = None

LastSitesMapping ==
    IF last.op = "add_sites_from_dictionary" THEN last.dict ELSE last.rd.data

\* every entry of the mapping holds the keys of a Sites record
SitesRecordsOnly(dict) ==
    \A uid \in DOMAIN dict : \A j \in 1..Len(dict[uid]) :
        SiteRequiredKeys \cup {"attributes"} \subseteq DOMAIN dict[uid][j]

\* C2 as claimed: after add_sites_from_file with skip_bad=True and safe, verbose
\* and the delimiter at their defaults, on a file with a record whose position
\* is outside its Protein's sequence: no error reaches the caller and the
\* Proteins' Sites are those they had and the records that fit.
C2_SkipBadSiteOutOfRange ==
    (/\ last.op = "add_sites_from_file"
     /\ last.skip_bad /\ last.safe /\ last.verbose /\ last.delimiter = TAB
     /\ last.rd.err = None
     /\ HasOutOfRangeSite(last.pre, last.rd.data))
    => /\ last.err = None
       /\ \A i \in 1..Len(last.pre) :
              last.post[i].sites
                  = last.pre[i].sites \o SitesThatFit(last.pre[i], last.rd.data)

\* C2 amended: after a Sites load whose mapping of Sites records holds a record
\* with a position outside its Protein's sequence: with safe=False no error
\* reaches the caller and each Protein's Sites are those it had and the records
\* that fit, in their order; with safe=True the load raises ProteinException
\* and no Site lies outside its Protein; skip_bad decides neither.
C2_SafeDecidesSiteOutOfRange ==
    (/\ HasSitesMapping
     /\ SitesRecordsOnly(LastSitesMapping)
     /\ HasOutOfRangeSite(last.pre, LastSitesMapping))
    => IF last.safe
       THEN /\ last.err = "ProteinException"
            /\ \A i \in 1..Len(last.post) : \A k \in 1..Len(last.post[i].sites) :
                   SiteInRange(last.post[i], last.post[i].sites[k])
       ELSE /\ last.err = None
            /\ \A i \in 1..Len(last.pre) :
                   last.post[i].sites
                       = last.pre[i].sites \o SitesThatFit(last.pre[i], LastSitesMapping)

\* a file load under skip_bad=True and safe=False that skipped a record behind
\* P2's sequence and added the record that fits P1
C2_Witness ==
    /\ last.op = "add_sites_from_file"
    /\ last.skip_bad /\ ~last.safe
    /\ last.rd.err = None
    /\ HasOutOfRangeSite(last.pre, last.rd.data)
    /\ last.err = None
    /\ Len(ProteinOf(proteome, P1).sites) = Len(ProteinOf(last.pre, P1).sites) + 1
    /\ ProteinOf(proteome, P2).sites = <<>>

\* the dictionary without the keys that are no unique_ID of the Proteome
KnownPart(prot, dict) == [uid \in PresentKeys(prot, dict) |-> dict[uid]]

\* the outcome of the last bulk load had it been given only the known keys
LoadOfKnownPart ==
    IF last.op = "add_domains_from_dictionary"
    THEN add_domains_from_dictionary(last.pre, KnownPart(last.pre, last.dict),
             last.autoname, last.safe, last.skip_bad, last.verbose)
    ELSE add_sites_from_dictionary(last.pre, KnownPart(last.pre, last.dict),
             last.safe, last.verbose)

\* C3: after a bulk load from a dictionary the Proteome holds the Proteins it
\* held, and its annotations and the error are those of the load of the
\* dictionary without the keys that are no unique_ID of the Proteome; a
\* dictionary of such keys alone changes nothing and raises nothing.
C3_AbsentKeysIgnored ==
    last.op \in {"add_domains_from_dictionary", "add_sites_from_dictionary"}
    => /\ [i \in 1..Len(last.post) |-> last.post[i].unique_ID]
              = [i \in 1..Len(last.pre) |-> last.pre[i].unique_ID]
       /\ last.post = LoadOfKnownPart.proteome
       /\ last.err = LoadOfKnownPart.err
       /\ PresentKeys(last.pre, last.dict) = {}
              => last.post = last.pre /\ last.err = None

\* a load of records for PX and for P1 that added a Domain to P1 and none to P2
C3_Witness ==
    /\ last.op = "add_domains_from_dictionary"
    /\ PX \in DOMAIN last.dict
    /\ P1 \in DOMAIN last.dict
    /\ last.err = None
    /\ Len(ProteinOf(proteome, P1).domains) = Len(ProteinOf(last.pre, P1).domains) + 1
    /\ ProteinOf(proteome, P2).domains = <<>>

-----------------------------------------------------------------------------
(* Claims about the writers *)

\* the (unique_ID, start, end, domain_type) tuples of a Proteome's Domains
DomainTuples(prot) ==
    UNION {{<<prot[i].unique_ID, prot[i].domains[k].start, prot[i].domains[k].end,
              prot[i].domains[k].domain_type>> : k \in 1..Len(prot[i].domains)} :
           i \in 1..Len(prot)}

\* the file was left by write_domains and add_domains_from_file has read it,
\* with the writer's delimiter, into the fresh Proteome
DomainsRoundTrip ==
    /\ pc = "done"
    /\ last.op = "add_domains_from_file"
    /\ wdelim # None
    /\ wdelim # ":"
    /\ last.delimiter = wdelim

\* C4: after write_domains and add_domains_from_file (same delimiter, not ':',
\* the other arguments at their defaults) into the fresh Proteome, the fresh
\* Proteome holds the (unique_ID, start, end, domain_type) tuples of the
\* Proteome that was written.
C4_DomainsRoundTrip ==
    (/\ DomainsRoundTrip
     /\ ~last.autoname /\ last.safe /\ last.skip_bad /\ last.verbose)
    => DomainTuples(fresh) = DomainTuples(proteome)

\* no domain_type of the Proteome holds the delimiter
TypesWithout(prot, delimiter) ==
    \A i \in 1..Len(prot) : \A k \in 1..Len(prot[i].domains) :
        Count(prot[i].domains[k].domain_type, delimiter) = 0

\* C5: after write_domains and the Domains reader on the written file (same
\* delimiter, not ':', and in no domain_type) the mapping holds, for every
\* Protein with Domains and for no other key, its Domains in order as [start,
\* end, domain_type, attributes] with the keys of each Domain's attribute mapping.
C5_DomainsMappingRoundTrip ==
    (DomainsRoundTrip /\ TypesWithout(proteome, wdelim))
    => /\ last.rd.err = None
       /\ DOMAIN last.rd.data
              = {proteome[i].unique_ID : i \in {j \in 1..Len(proteome) :
                                                  proteome[j].domains # <<>>}}
       /\ \A i \in 1..Len(proteome) :
              proteome[i].domains # <<>> =>
                  LET recs == last.rd.data[proteome[i].unique_ID]
                      doms == proteome[i].domains
                  IN  /\ Len(recs) = Len(doms)
                      /\ \A k \in 1..Len(doms) :
                             /\ recs[k][1] = doms[k].start
                             /\ recs[k][2] = doms[k].end
                             /\ recs[k][3] = doms[k].domain_type
                             /\ DOMAIN recs[k][4] = DOMAIN doms[k].attributes

\* a line of the Sites grammar: five fields, then tokens with one ':' each
SitesGrammar(line, delimiter) ==
    LET body == IF line # <<>> /\ line[Len(line)] = NL
                THEN SubSeq(line, 1, Len(line) - 1) ELSE line
        fields == Split(body, delimiter)
    IN  /\ Len(fields) >= 5
        /\ ParseInt(fields[2]).ok
        /\ ParseFloat(fields[5]).ok
        /\ \A k \in 6..Len(fields) : Count(fields[k], ":") = 1

\* the number of Sites of a Proteome
RECURSIVE SiteCount(_)
SiteCount(prot) ==
    IF prot = <<>> THEN 0 ELSE Len(Head(prot).sites) + SiteCount(Tail(prot))

\* C6: write_sites with a delimiter other than ':' raises nothing and writes
\* one line of the Sites grammar per Site; the Sites reader with that delimiter
\* and skip_bad=False then accepts the file and returns, for every Protein with
\* Sites, its Sites in order with their position, site_type, symbol and value.
C6_SitesRoundTrip ==
    /\ (pc = "sites_written" /\ wdelim # ":")
       => /\ last.err = None
          /\ Len(ReadLines(file.content)) = SiteCount(proteome)
          /\ \A n \in 1..Len(ReadLines(file.content)) :
                 SitesGrammar(ReadLines(file.content)[n], wdelim)
    /\ (/\ pc = "done"
        /\ last.op = "add_sites_from_file"
        /\ wdelim \notin {None, ":"}
        /\ last.delimiter = wdelim
        /\ ~last.skip_bad)
       => /\ last.rd.err = None
          /\ \A i \in 1..Len(proteome) :
                 proteome[i].sites # <<>> =>
                     /\ proteome[i].unique_ID \in DOMAIN last.rd.data
                     /\ LET recs == last.rd.data[proteome[i].unique_ID]
                            sites == proteome[i].sites
                        IN  /\ Len(recs) = Len(sites)
                            /\ \A k \in 1..Len(sites) :
                                   /\ recs[k].position = sites[k].position
                                   /\ recs[k].site_type = sites[k].site_type
                                   /\ recs[k].symbol = sites[k].symbol
                                   /\ recs[k].value = sites[k].value

-----------------------------------------------------------------------------
(* Claims about the readers *)

FileLines == ReadLines(file.content)

Min(S) == CHOOSE n \in S : \A m \in S : n <= m

\* a token among the fields behind the first `fixed` that has not exactly one ':'
MalformedTokens(fields, fixed) ==
    \E k \in (fixed + 1)..Len(fields) : Count(fields[k], ":") # 1

\* a Domains line with a required field missing or a start or end that is no integer
MalformedRequiredDomain(line, delimiter) ==
    LET fields == Split(line, delimiter)
    IN  \/ Len(fields) < 4
        \/ ~ParseInt(fields[2]).ok
        \/ ~ParseInt(fields[3]).ok

\* a Domains line the attribute parser refuses
MalformedTokensDomain(line, delimiter) ==
    /\ ~MalformedRequiredDomain(line, delimiter)
    /\ MalformedTokens(Split(line, delimiter), 4)

\* the last call read an existing Domains file with a delimiter other than ':'
DomainsFileRead ==
    /\ last.op = "add_domains_from_file"
    /\ last.delimiter # ":"
    /\ file.exists

\* C7: with ':' as the delimiter add_domains_from_file and add_sites_from_file
\* raise the parse error without opening the file or processing a line, whether
\* the file exists, and the Proteome's annotations are those it had.
C7_ColonDelimiterRaisesFirst ==
    (/\ last.op \in {"add_domains_from_file", "add_sites_from_file"}
     /\ last.delimiter = ":")
    => /\ last.err = "InterfaceException"
       /\ last.rd.err = "InterfaceException"
       /\ ~last.rd.opened
       /\ last.rd.processed = 0
       /\ last.post = last.pre

\* add_domains_from_file with ':' on a file whose first line is a Domains line
\* for P1 with ':' between its fields
C7_Witness ==
    /\ last.op = "add_domains_from_file"
    /\ last.delimiter = ":"
    /\ file.exists
    /\ FileLines # <<>>
    /\ ~MalformedRequiredDomain(FileLines[1], ":")
    /\ last.err = "InterfaceException"
    /\ proteome = AnnotatedProteome

\* C8 as claimed: a Domains file with a line whose required field is missing or
\* whose start or end is no integer fails as a whole, the error names the first
\* such line, no mapping is produced and no Domain is added.
C8_ErrorNamesFirstBadRequiredLine ==
    LET bad == {n \in 1..Len(FileLines) :
                    MalformedRequiredDomain(FileLines[n], last.delimiter)}
    IN  (DomainsFileRead /\ bad # {})
        => /\ last.err = "InterfaceException"
           /\ last.rd.err = "InterfaceException"
           /\ last.rd.errline = Min(bad)
           /\ last.post = last.pre

\* C8 amended: such a file fails as a whole, whatever skip_bad and safe, no
\* mapping is produced and no Domain is added; the error names the first line
\* that is malformed in a required field or in a key:value token.
C8_ErrorNamesFirstMalformedLine ==
    LET bad == {n \in 1..Len(FileLines) :
                    MalformedRequiredDomain(FileLines[n], last.delimiter)}
        refused == {n \in 1..Len(FileLines) :
                    MalformedTokensDomain(FileLines[n], last.delimiter)}
    IN  (DomainsFileRead /\ bad # {})
        => /\ last.err = "InterfaceException"
           /\ last.rd.err = "InterfaceException"
           /\ last.rd.errline = Min(bad \cup refused)
           /\ last.post = last.pre

\* a file whose first line is a Domain that fits P1 and whose second line lacks
\* a required field, read under skip_bad: the error names line 2, P1 has no Domain
C8_Witness ==
    /\ DomainsFileRead
    /\ last.skip_bad
    /\ Len(FileLines) >= 2
    /\ ~MalformedRequiredDomain(FileLines[1], last.delimiter)
    /\ ~MalformedTokensDomain(FileLines[1], last.delimiter)
    /\ Strip(Split(FileLines[1], last.delimiter)[1]) = P1
    /\ ParseInt(Split(FileLines[1], last.delimiter)[3]).val <= LenP1
    /\ MalformedRequiredDomain(FileLines[2], last.delimiter)
    /\ last.rd.errline = 2
    /\ proteome = AnnotatedProteome

\* a Sites line with a required field missing, a position that is no integer
\* or a value that is no float
MalformedRequiredSite(line, delimiter) ==
    LET fields == Split(Strip(line), delimiter)
    IN  \/ Len(fields) < 5
        \/ ~ParseInt(fields[2]).ok
        \/ ~ParseFloat(fields[5]).ok

\* a Sites line the attribute parser refuses
MalformedTokensSite(line, delimiter) ==
    /\ ~MalformedRequiredSite(line, delimiter)
    /\ MalformedTokens(Split(Strip(line), delimiter), 5)

\* the number of records of a mapping
RECURSIVE RecordCount(_, _)
RecordCount(data, keys) ==
    IF keys = {} THEN 0
    ELSE LET k == CHOOSE x \in keys : TRUE
         IN  Len(data[k]) + RecordCount(data, keys \ {k})

\* the last call read an existing Sites file with a delimiter other than ':'
SitesFileRead ==
    /\ last.op = "add_sites_from_file"
    /\ last.delimiter # ":"
    /\ file.exists

\* C9: on a Sites file with a line malformed in a required field, the reader
\* under skip_bad=True, if the file has a well-formed line, raises nothing,
\* warns for every such line and returns a record for every well-formed line
\* and for no other; under skip_bad=False it raises an error that names a line
\* of the file and returns no mapping.
C9_SkipBadDecidesRequiredFieldError ==
    LET bad == {n \in 1..Len(FileLines) :
                    MalformedRequiredSite(FileLines[n], last.delimiter)}
        good == {n \in 1..Len(FileLines) :
                    /\ ~MalformedRequiredSite(FileLines[n], last.delimiter)
                    /\ ~MalformedTokensSite(FileLines[n], last.delimiter)}
    IN  (SitesFileRead /\ bad # {})
        => IF last.skip_bad
           THEN /\ good # {} => last.rd.err = None
                /\ last.rd.err = None =>
                       /\ last.rd.warnings >= Cardinality(bad)
                       /\ RecordCount(last.rd.data, DOMAIN last.rd.data)
                              = Cardinality(good)
           ELSE /\ last.rd.err = "InterfaceException"
                /\ last.rd.errline \in 1..Len(FileLines)

\* C10: add_sites_from_file with skip_bad=True raises no parse error on a file
\* with bad lines: it warns once for every line malformed in a required field
\* or in a key:value token and reads a record from every other line.
C10_SkipBadSkipsEveryBadLine ==
    LET bad == {n \in 1..Len(FileLines) :
                    \/ MalformedRequiredSite(FileLines[n], last.delimiter)
                    \/ MalformedTokensSite(FileLines[n], last.delimiter)}
    IN  (SitesFileRead /\ last.skip_bad)
        => /\ last.rd.err = None
           /\ last.err # "InterfaceException"
           /\ last.rd.warnings = Cardinality(bad)
           /\ RecordCount(last.rd.data, DOMAIN last.rd.data)
                  = Len(FileLines) - Cardinality(bad)

-----------------------------------------------------------------------------
(* Claims about a bulk load that raises *)

\* the records of the dictionary in the order the loops visit them: Proteins
\* in Proteome order, and under each Protein's key its list in list order
RECURSIVE LoadOrder(_, _, _)
LoadOrder(prot, dict, i) ==
    IF i > Len(prot) THEN <<>>
    ELSE (IF prot[i].unique_ID \in DOMAIN dict
          THEN [j \in 1..Len(dict[prot[i].unique_ID]) |->
                    [at |-> i, record |-> dict[prot[i].unique_ID][j]]]
          ELSE <<>>) \o LoadOrder(prot, dict, i + 1)

\* one record of the last bulk load added to its Protein, with the flags of
\* that load; ok is FALSE where the loader's body raises for the record
AddOne(prot, e) ==
    LET r == IF last.op = "add_domains_from_dictionary"
             THEN add_domain(prot[e.at], e.record[1], e.record[2], e.record[3],
                             e.record[4], last.safe, last.autoname)
             ELSE IF ~(SiteRequiredKeys \subseteq DOMAIN e.record)
             THEN [ok |-> FALSE, protein |-> prot[e.at]]
             ELSE add_site(prot[e.at], e.record.position, e.record.site_type,
                           e.record.symbol, e.record.value,
                           IF "attributes" \in DOMAIN e.record
                           THEN e.record.attributes ELSE EmptyAttrs)
    IN  [ok |-> r.ok, proteome |-> [prot EXCEPT ![e.at] = r.protein]]

\* the Proteome after the first n records of the order, each added in turn;
\* ok is FALSE when one of them failed
RECURSIVE AfterPrefix(_, _, _)
AfterPrefix(prot, order, n) ==
    IF n = 0 THEN [ok |-> TRUE, proteome |-> prot]
    ELSE LET before == AfterPrefix(prot, order, n - 1)
         IN  IF before.ok THEN AddOne(before.proteome, order[n]) ELSE before

\* the last call was a bulk load that raised on a record: add_domains_from_dictionary
\* with skip_bad=False, or add_sites_from_dictionary with safe=True
BulkLoadRaised ==
    /\ \/ last.op = "add_domains_from_dictionary" /\ ~last.skip_bad
       \/ last.op = "add_sites_from_dictionary" /\ last.safe
    /\ last.err # None

\* C11: when a bulk load raises on a failing record, the Proteome after the
\* error is the Proteome before the load with exactly the records added that
\* precede the first failing record in load order (Proteins in Proteome order,
\* then the order of the Protein's list), each of which succeeded; nothing is
\* rolled back and no record after the failing one is added.
C11_ErrorKeepsSuccessfulPrefix ==
    BulkLoadRaised
    => LET order == LoadOrder(last.pre, last.dict, 1)
       IN  \E n \in 1..Len(order) :
               /\ AfterPrefix(last.pre, order, n - 1).ok
               /\ ~AfterPrefix(last.pre, order, n).ok
               /\ last.post = AfterPrefix(last.pre, order, n - 1).proteome
               /\ proteome = last.post

\* add_domains_from_dictionary with skip_bad=False that raised on the second of
\* three records: the first is attached, and the third, which fits, is not
C11_Witness ==
    LET order == LoadOrder(last.pre, last.dict, 1)
    IN  /\ last.op = "add_domains_from_dictionary"
        /\ ~last.skip_bad
        /\ last.err = "InterfaceException"
        /\ Len(order) = 3
        /\ AfterPrefix(last.pre, order, 1).ok
        /\ ~AfterPrefix(last.pre, order, 2).ok
        /\ AddOne(AfterPrefix(last.pre, order, 1).proteome, order[3]).ok
        /\ proteome # last.pre
        /\ proteome = AfterPrefix(last.pre, order, 1).proteome

=============================================================================
